---- MODULE Spec2Model ----
(***************************************************************************)
(* A model of the `at` command line client (src/src/cli.ts): the three     *)
(* identity-mutating workflows `aka`, `rotation` (add) and                 *)
(* `rotation --remove`, and the lookup `did`, run one invocation after     *)
(* another against one account held by an identity provider (PDS) and the  *)
(* PLC directory.                                                          *)
(*                                                                         *)
(* Strings are sequences of tokens.  A token is one character, or one of   *)
(* the scheme prefixes "did:key:", "did:plc:", "did:web:", "at://", which  *)
(* the code only ever tests with startsWith or prepends.                   *)
(*                                                                         *)
(* Every awaited call of a command is one action: the call, its two        *)
(* outcomes (it resolves, or it throws into the command's catch block),    *)
(* and the synchronous code up to the next await.                          *)
(*                                                                         *)
(* The provider is the environment.  The client reads an account's         *)
(* credentials from two places: the operation of the last entry of the     *)
(* PLC audit log (removeCommand, did:plc) and the response of              *)
(* getRecommendedDidCredentials (rotationCommand, and removeCommand for    *)
(* other DIDs).  Nothing in the client makes the two agree, so the model   *)
(* keeps them apart: `log` is the account's operations, `recommended` the  *)
(* recommended credentials, which a submission may or may not change.      *)
(* signPlcOperation keeps the fields of the latest operation that its      *)
(* input does not give.                                                    *)
(***************************************************************************)
EXTENDS Integers, Sequences, FiniteSets, TLC

(***************************************************************************)
(* Bounds of the model.                                                    *)
(***************************************************************************)
\* invocations of the CLI, one after another
MaxRuns == 2
\* length of a rotation-key list of the account before the first invocation
MaxKeys == 2
\* length of the <URL> argument, in characters
MaxUrlLen == 2
\* length of a line typed at the code prompt, in characters
MaxCodeLen == 2
\* characters of a private key in hex (a scaled stand-in for the 64 of the code)
KeyHexLen == 2

(***************************************************************************)
(* String helpers: what the JavaScript string and array methods do.        *)
(***************************************************************************)
RECURSIVE SeqsUpTo(_, _)
SeqsUpTo(S, n) ==
    IF n = 0 THEN {<<>>}
    ELSE LET shorter == SeqsUpTo(S, n - 1)
         IN  shorter \cup {Append(s, c) : s \in {t \in shorter : Len(t) = n - 1}, c \in S}

StartsWith(s, prefix) ==
    /\ Len(s) >= Len(prefix)
    /\ SubSeq(s, 1, Len(prefix)) = prefix

Includes(list, x) == \E i \in 1..Len(list) : list[i] = x

RECURSIVE TrimStart(_)
TrimStart(s) ==
    IF s # <<>> /\ Head(s) = " " THEN TrimStart(Tail(s)) ELSE s

RECURSIVE TrimEnd(_)
TrimEnd(s) ==
    IF s # <<>> /\ s[Len(s)] = " " THEN TrimEnd(SubSeq(s, 1, Len(s) - 1)) ELSE s

Trim(s) == TrimEnd(TrimStart(s))

\* s.split(' '): the pieces between the spaces, empty pieces included
RECURSIVE SplitFrom(_, _)
SplitFrom(s, piece) ==
    IF s = <<>> THEN <<piece>>
    ELSE IF Head(s) = " " THEN <<piece>> \o SplitFrom(Tail(s), <<>>)
    ELSE SplitFrom(Tail(s), Append(piece, Head(s)))

Split(s) == SplitFrom(s, <<>>)

Last(list) == list[Len(list)]

(***************************************************************************)
(* Keys.  A private key is a scalar; the hex string of the command line is *)
(* parsed digit by digit.  The public key of a scalar and its did:key      *)
(* string are one-to-one with the scalar.                                  *)
(***************************************************************************)
HexDigits == {"0", "a", "A"}
KeyChars == HexDigits \cup {"g"}

HexVal(c) == IF c = "0" THEN 0 ELSE 10

RECURSIVE Scalar(_)
Scalar(hex) ==
    IF hex = <<>> THEN 0
    ELSE 16 * Scalar(SubSeq(hex, 1, Len(hex) - 1)) + HexVal(hex[Len(hex)])

\* the group order, scaled with the key length: some well-formed strings are >= it
CurveOrder == (16 ^ KeyHexLen) - 86

\* /^[0-9a-f]{64}$/i
MatchesHex(s) ==
    /\ Len(s) = KeyHexLen
    /\ \A i \in 1..Len(s) : s[i] \in HexDigits

ValidScalar(n) == 0 < n /\ n < CurveOrder

\* keypair.did()
DidOf(n) == <<"did:key:", "z" \o ToString(n)>>

\* Buffer.from(bytes).toString('hex') of a generated key: lowercase
GeneratedHex ==
    {s \in SeqsUpTo({"0", "a"}, KeyHexLen) : Len(s) = KeyHexLen /\ ValidScalar(Scalar(s))}

(***************************************************************************)
(* Key encodings.  A byte of the model is written as one hex digit, so a   *)
(* key of KeyHexLen hex characters is KeyHexLen bytes.  The curve is a     *)
(* stand-in: the public point of a scalar is a pair of coordinates below   *)
(* an odd modulus, one x per scalar, and the negative of a point has the   *)
(* other parity of y.                                                      *)
(***************************************************************************)
HexAlphabet ==
    <<"0", "1", "2", "3", "4", "5", "6", "7", "8", "9", "a", "b", "c", "d", "e", "f">>

\* Buffer.from(hex, 'hex')
FromHex(hex) == [i \in 1..Len(hex) |-> HexVal(hex[i])]

\* Buffer.from(bytes).toString('hex')
ToHex(bytes) == [i \in 1..Len(bytes) |-> HexAlphabet[bytes[i] + 1]]

\* the integer a byte string writes, big-endian, in the given base
RECURSIVE FromDigits(_, _)
FromDigits(digits, base) ==
    IF digits = <<>> THEN 0
    ELSE base * FromDigits(SubSeq(digits, 1, Len(digits) - 1), base) + digits[Len(digits)]

\* the big-endian digits of an integer, count of them
RECURSIVE ToDigits(_, _, _)
ToDigits(n, base, count) ==
    IF count = 0 THEN <<>>
    ELSE Append(ToDigits(n \div base, base, count - 1), n % base)

\* the private keys create() can give, as export() returns them
GeneratedBytes ==
    {b \in SeqsUpTo({0, 10}, KeyHexLen) : Len(b) = KeyHexLen /\ ValidScalar(FromDigits(b, 16))}

FieldSize == (16 ^ KeyHexLen) - 1

\* the public point of a private scalar
PointOf(n) == [x |-> (11 * n + 3) % FieldSize, y |-> 1 + ((5 * n) % (FieldSize - 1))]

\* keypair.publicKeyBytes(): the sign byte and x
PublicKeyBytes(n) ==
    <<2 + (PointOf(n).y % 2)>> \o ToDigits(PointOf(n).x, 16, KeyHexLen)

\* secp256k1.Point.fromHex(compressed): y recovered from x, with the parity of the
\* sign byte
PointFromHex(compressed) ==
    LET x == FromDigits(Tail(compressed), 16)
        n == CHOOSE m \in 1..(CurveOrder - 1) : PointOf(m).x = x
        y == PointOf(n).y
    IN  [x |-> x, y |-> IF y % 2 = Head(compressed) - 2 THEN y ELSE FieldSize - y]

\* point.toRawBytes(false): [0x04, x, y]
ToRawBytes(point) ==
    <<4>> \o ToDigits(point.x, 16, KeyHexLen) \o ToDigits(point.y, 16, KeyHexLen)

\* bytes.slice(from, to)
Slice(bytes, from, to) == SubSeq(bytes, from + 1, to)

Base64Alphabet ==
    <<"A", "B", "C", "D", "E", "F", "G", "H", "I", "J", "K", "L", "M", "N", "O", "P",
      "Q", "R", "S", "T", "U", "V", "W", "X", "Y", "Z", "a", "b", "c", "d", "e", "f",
      "g", "h", "i", "j", "k", "l", "m", "n", "o", "p", "q", "r", "s", "t", "u", "v",
      "w", "x", "y", "z", "0", "1", "2", "3", "4", "5", "6", "7", "8", "9", "-", "_">>

\* Buffer.from(bytes).toString('base64url'): the bits in groups of six, the last
\* group filled with zero bits, no padding characters
Base64Url(bytes) ==
    LET bits == 8 * Len(bytes)
        fill == (6 - (bits % 6)) % 6
        sextets == ToDigits(FromDigits(bytes, 256) * (2 ^ fill), 64, (bits + fill) \div 6)
    IN  [i \in 1..Len(sextets) |-> Base64Alphabet[sextets[i] + 1]]

\* faulty variant: d is taken from the public key
JwkPublicOnly(privateKeyBytes, compressedPubkey) ==
    LET uncompressedPubkey == ToRawBytes(PointFromHex(compressedPubkey))
        x == Slice(uncompressedPubkey, 1, 1 + KeyHexLen)
        y == Slice(uncompressedPubkey, 1 + KeyHexLen, 1 + 2 * KeyHexLen)
    IN  [kty |-> "EC", crv |-> "secp256k1", x |-> Base64Url(x), y |-> Base64Url(y),
         d |-> Base64Url(x), key_ops |-> <<"sign">>]

\* the jwk object of keysCommand and rotationCommand
Jwk(privateKeyBytes, compressedPubkey) ==
    LET uncompressedPubkey == ToRawBytes(PointFromHex(compressedPubkey))
        x == Slice(uncompressedPubkey, 1, 1 + KeyHexLen)
        y == Slice(uncompressedPubkey, 1 + KeyHexLen, 1 + 2 * KeyHexLen)
    IN  [kty |-> "EC", crv |-> "secp256k1", x |-> Base64Url(x), y |-> Base64Url(y),
         d |-> Base64Url(privateKeyBytes), key_ops |-> <<"sign">>]

(***************************************************************************)
(* The account.                                                            *)
(***************************************************************************)
handle == <<"h">>

SelfId(h) == <<"at://">> \o h

Fields == {"rotationKeys", "alsoKnownAs", "verificationMethods", "services"}

\* the keys an account holds before the first invocation: two that the add
\* workflow can produce
InitKeys == {DidOf(Scalar(<<"a">>)), DidOf(Scalar(<<"a", "0">>))}

InitKeyLists == SeqsUpTo(InitKeys, MaxKeys)

InitAkaLists == {<<SelfId(handle)>>, <<SelfId(handle), <<"w">>>>}

InitOps ==
    {[rotationKeys |-> ks, alsoKnownAs |-> aka,
      verificationMethods |-> o[1], services |-> o[2]] :
        ks \in InitKeyLists, aka \in InitAkaLists,
        o \in {<<"vmA", "svcA">>, <<"vmB", "svcB">>}}

\* what the PDS recommends for the account out of its own configuration
PdsDefault ==
    [rotationKeys |-> <<DidOf(Scalar(<<"a">>))>>, alsoKnownAs |-> <<SelfId(handle)>>,
     verificationMethods |-> "vmA", services |-> "svcA"]

Dids == {<<"did:plc:", "x">>, <<"did:web:", "x">>}

(***************************************************************************)
(* State.                                                                  *)
(***************************************************************************)
VARIABLES
    \* the provider and the directory
    did,            \* the account's DID, what resolveHandle returns
    log,            \* the operations of the account, oldest first; the last is its state
    recommended,    \* what getRecommendedDidCredentials returns for the account
    pendingCode,    \* a confirmation code was sent and has not been used
    \* the running invocation
    runs,           \* invocations started so far
    argv,           \* its command line
    before,         \* the account's state when it started
    pc,             \* the await it is suspended at, or "idle" / "exit"
    passwordInput,
    privateKeyHex, isNewKey, didKey,
    key,            \* removeCommand: the normalized key
    current,        \* the credentials the command fetched
    emailCode,
    promptError,    \* the code prompt shows validate's message under the entry
    signArgs,       \* the input of its signPlcOperation call
    signed,         \* signed.data.operation
    calls,          \* the prompts answered and the provider calls made, in order
    failed,         \* the step that threw, "none" if none did
    stdout,         \* what it printed, as tags
    exitCode,
    \* didCommand
    resolved,       \* its local `did`, the identifier it looks up
    requests,       \* the URLs it fetched, in order
    output,         \* the JSON values it wrote to stdout, in order
    \* bookkeeping for the properties
    history         \* the submissions that succeeded: [run, cmd, arg]

provider == <<did, log, recommended, pendingCode>>
locals == <<passwordInput, privateKeyHex, isNewKey, didKey, key, current,
            emailCode, promptError, signArgs, signed>>
lookup == <<resolved, requests, output>>
vars == <<did, log, recommended, pendingCode, runs, argv, before, pc, passwordInput,
          privateKeyHex, isNewKey, didKey, key, current, emailCode, promptError,
          signArgs, signed, calls, failed, stdout, exitCode, resolved, requests,
          output, history>>

\* an absent string (undefined), and an absent object
None == <<"none">>
NoRecord == [none |-> TRUE]
NoArgv == [cmd |-> "none", url |-> None, key |-> None, remove |-> None, format |-> "json"]

State == Last(log)

Credentials(op) == [f \in Fields |-> op[f]]

Init ==
    /\ did \in Dids
    /\ \E op \in InitOps :
        /\ log = <<op>>
        /\ recommended \in {op, PdsDefault}
    /\ pendingCode = FALSE
    /\ runs = 0
    /\ argv = NoArgv
    /\ before = Last(log)
    /\ pc = "idle"
    /\ passwordInput = None
    /\ privateKeyHex = None
    /\ isNewKey = FALSE
    /\ didKey = None
    /\ key = None
    /\ current = NoRecord
    /\ emailCode = None
    /\ promptError = FALSE
    /\ signArgs = NoRecord
    /\ signed = NoRecord
    /\ calls = <<>>
    /\ failed = "none"
    /\ stdout = {}
    /\ exitCode = -1
    /\ resolved = None
    /\ requests = <<>>
    /\ output = <<>>
    /\ history = <<>>

(***************************************************************************)
(* The provider's side of the calls.                                       *)
(***************************************************************************)
\* signPlcOperation: the account's last operation with the given fields replaced
SignPlcOperation(input) ==
    [f \in Fields |-> IF f \in DOMAIN input THEN input[f] ELSE State[f]]

\* submitPlcOperation: the operation becomes the account's state; the provider's
\* recommended credentials follow it or stay as they are
SubmitPlcOperation(op) ==
    /\ log' = Append(log, op)
    /\ recommended' \in {recommended, Credentials(op)}

Passwords == {"good", "bad"}

CodeInputs == SeqsUpTo({" ", "c"}, MaxCodeLen)

(***************************************************************************)
(* The steps the three commands share.                                     *)
(***************************************************************************)
\* faulty variant: the catch block reports the error and the process ends normally
CatchExitsZero(step) ==
    /\ failed' = step
    /\ exitCode' = 0
    /\ pc' = "exit"

\* the catch block of a command: console.error, process.exit(1)
Catch(step) ==
    /\ failed' = step
    /\ exitCode' = 1
    /\ pc' = "exit"

\* the command returns and the process ends
Return ==
    /\ exitCode' = 0
    /\ pc' = "exit"
    /\ UNCHANGED failed

Goto(next) ==
    /\ pc' = next
    /\ UNCHANGED <<failed, exitCode>>

\* faulty variant: only the empty entry is refused
ValidateLength(value) == value # <<>>

\* validate of the code prompt
Validate(value) == ~(value = <<>> \/ Len(Trim(value)) = 0)

\* await password({ ... })
Password(at, next) ==
    /\ pc = at
    /\ calls' = Append(calls, "password")
    /\ \/ \E pw \in Passwords : passwordInput' = pw /\ Goto(next)
       \/ Catch("password") /\ UNCHANGED passwordInput
    /\ UNCHANGED lookup
    /\ UNCHANGED <<provider, runs, argv, before, privateKeyHex, isNewKey, didKey, key,
                   current, emailCode, promptError, signArgs, signed, stdout, history>>

\* await agent.login({ identifier: handle, password: passwordInput })
Login(at, next) ==
    /\ pc = at
    /\ calls' = Append(calls, "login")
    /\ \/ passwordInput = "good" /\ Goto(next)
       \/ Catch("login")
    /\ UNCHANGED lookup
    /\ UNCHANGED <<provider, runs, argv, before, locals, stdout, history>>

\* await agent.com.atproto.identity.requestPlcOperationSignature()
RequestPlcOperationSignature(at, next) ==
    /\ pc = at
    /\ calls' = Append(calls, "requestPlcOperationSignature")
    /\ \/ pendingCode' = TRUE /\ Goto(next)
       \/ Catch("requestPlcOperationSignature") /\ UNCHANGED pendingCode
    /\ UNCHANGED lookup
    /\ UNCHANGED <<did, log, recommended, runs, argv, before, locals, stdout, history>>

\* await input({ message, validate }): a refused entry is asked for again
Input(at, next) ==
    /\ pc = at
    /\ \/ \E value \in CodeInputs :
            IF Validate(value)
            THEN /\ emailCode' = value
                 /\ promptError' = FALSE
                 /\ calls' = Append(calls, "input")
                 /\ Goto(next)
            ELSE /\ promptError' = TRUE
                 /\ UNCHANGED <<emailCode, calls, pc, failed, exitCode>>
       \/ /\ Catch("input")
          /\ promptError' = FALSE
          /\ calls' = Append(calls, "input")
          /\ UNCHANGED emailCode
    /\ UNCHANGED lookup
    /\ UNCHANGED <<provider, runs, argv, before, passwordInput, privateKeyHex, isNewKey,
                   didKey, key, current, signArgs, signed, stdout, history>>

\* faulty variant: the provider applies the operation as soon as it has signed it
SignPlcOperationApplies(at, next, input) ==
    /\ pc = at
    /\ calls' = Append(calls, "signPlcOperation")
    /\ signArgs' = input
    /\ \/ /\ signed' = SignPlcOperation([f \in DOMAIN input \ {"token"} |-> input[f]])
          /\ log' = Append(log, signed')
          /\ pendingCode' = FALSE
          /\ Goto(next)
       \/ Catch("signPlcOperation") /\ UNCHANGED <<signed, pendingCode, log>>
    /\ UNCHANGED lookup
    /\ UNCHANGED <<did, recommended, runs, argv, before, passwordInput, privateKeyHex,
                   isNewKey, didKey, key, current, emailCode, promptError, stdout, history>>

\* await agent.com.atproto.identity.signPlcOperation(input)
SignPlcOperationCall(at, next, input) ==
    /\ pc = at
    /\ calls' = Append(calls, "signPlcOperation")
    /\ signArgs' = input
    /\ \/ /\ signed' = SignPlcOperation([f \in DOMAIN input \ {"token"} |-> input[f]])
          /\ pendingCode' = FALSE
          /\ Goto(next)
       \/ Catch("signPlcOperation") /\ UNCHANGED <<signed, pendingCode>>
    /\ UNCHANGED lookup
    /\ UNCHANGED <<did, log, recommended, runs, argv, before, passwordInput, privateKeyHex,
                   isNewKey, didKey, key, current, emailCode, promptError, stdout, history>>

\* faulty variant: a failed submission is tried again
SubmitRetries(at, cmd, arg, printed, values) ==
    /\ pc = at
    /\ calls' = Append(calls, "submitPlcOperation")
    /\ \/ /\ SubmitPlcOperation(signed)
          /\ history' = Append(history, [run |-> runs, cmd |-> cmd, arg |-> arg])
          /\ stdout' = stdout \cup printed
          /\ output' = output \o values
          /\ Return
       \/ /\ Len(calls) < 12
          /\ UNCHANGED <<log, recommended, history, stdout, output, pc, failed, exitCode>>
    /\ UNCHANGED <<resolved, requests>>
    /\ UNCHANGED <<did, pendingCode, runs, argv, before, locals>>

\* await agent.com.atproto.identity.submitPlcOperation({ operation })
SubmitPlcOperationCall(at, cmd, arg, printed, values) ==
    /\ pc = at
    /\ calls' = Append(calls, "submitPlcOperation")
    /\ \/ /\ SubmitPlcOperation(signed)
          /\ history' = Append(history, [run |-> runs, cmd |-> cmd, arg |-> arg])
          /\ stdout' = stdout \cup printed
          /\ output' = output \o values
          /\ Return
       \/ /\ Catch("submitPlcOperation")
          /\ UNCHANGED <<log, recommended, history, stdout, output>>
    /\ UNCHANGED <<resolved, requests>>
    /\ UNCHANGED <<did, pendingCode, runs, argv, before, locals>>

(***************************************************************************)
(* The command line.                                                       *)
(***************************************************************************)
\* a JavaScript string in a condition: undefined and '' are false
Truthy(s) == s # None /\ s # <<>>

Formats == {"hex", "json", "jwk"}

UrlArgs == SeqsUpTo({"u", " "}, MaxUrlLen)

\* [key]: absent, empty, every string of the right length, one too short, one too long
KeyArgs ==
    {None, <<>>}
    \cup {k \in SeqsUpTo(KeyChars, KeyHexLen) : Len(k) = KeyHexLen}
    \cup {[i \in 1..(KeyHexLen - 1) |-> "a"], [i \in 1..(KeyHexLen + 1) |-> "a"]}

\* a key that is importable, as the positional argument beside --remove
SomeKeyArg == [i \in 1..KeyHexLen |-> IF i = KeyHexLen THEN "a" ELSE "0"]

\* the keys --remove is given: the keys an account can hold and one it never holds,
\* each with and without the did:key: prefix
RemoveKeys == InitKeys \cup {<<"did:key:", "zQ">>}

RemoveArgs == RemoveKeys \cup {Tail(k) : k \in RemoveKeys}

AkaArgv ==
    {[cmd |-> "aka", url |-> u, key |-> None, remove |-> None, format |-> "json"] :
        u \in UrlArgs}

RotationArgv ==
    {[cmd |-> "rotation", url |-> None, key |-> None, remove |-> None, format |-> f] :
        f \in Formats}
    \cup
    {[cmd |-> "rotation", url |-> None, key |-> k, remove |-> None, format |-> "json"] :
        k \in KeyArgs}
    \cup
    {[cmd |-> "rotation", url |-> None, key |-> None, remove |-> r, format |-> "json"] :
        r \in {<<>>} \cup RemoveArgs}
    \cup
    {[cmd |-> "rotation", url |-> None, key |-> SomeKeyArg, remove |-> r, format |-> "json"] :
        r \in {<<>>, CHOOSE k \in InitKeys : TRUE}}

\* a new process, while fewer than limit have run: nothing is kept from the run before
Fresh(limit) ==
    /\ pc \in {"idle", "exit"}
    /\ runs < limit
    /\ runs' = runs + 1
    /\ before' = State
    /\ passwordInput' = None
    /\ privateKeyHex' = None
    /\ isNewKey' = FALSE
    /\ didKey' = None
    /\ current' = NoRecord
    /\ emailCode' = None
    /\ promptError' = FALSE
    /\ signArgs' = NoRecord
    /\ signed' = NoRecord
    /\ calls' = <<>>
    /\ stdout' = {}
    /\ resolved' = None
    /\ requests' = <<>>
    /\ output' = <<>>
    /\ UNCHANGED <<provider, history>>

(***************************************************************************)
(* at aka <handle> <URL>                                                   *)
(***************************************************************************)
\* the yargs handler of `aka`
akaHandlerUpTo(limit) ==
    /\ Fresh(limit)
    /\ \E a \in AkaArgv :
        /\ argv' = a
        /\ IF ~Truthy(a.url)
           THEN /\ failed' = "empty url"
                /\ exitCode' = 1
                /\ pc' = "exit"
           ELSE /\ failed' = "none"
                /\ exitCode' = -1
                /\ pc' = "aka:password"
    /\ key' = None

akaHandler == akaHandlerUpTo(MaxRuns)

\* args.urls
Urls(a) == Split(a.url)

\* faulty variant: the URLs are appended to the account's list
AkaAppendsToState(h, urls) == State.alsoKnownAs \o urls

\* const alsoKnownAs = [`at://${handle}`, ...urls]
AkaAlsoKnownAs(h, urls) == <<SelfId(h)>> \o urls

\* faulty variant: aka passes the recommended credentials along, as rotationCommand does
AkaSignInputAllFields ==
    [token |-> Trim(emailCode),
     rotationKeys |-> recommended.rotationKeys,
     verificationMethods |-> recommended.verificationMethods,
     services |-> recommended.services,
     alsoKnownAs |-> AkaAlsoKnownAs(handle, Urls(argv))]

\* the input of aka's signPlcOperation call
AkaSignInput ==
    [token |-> Trim(emailCode), alsoKnownAs |-> AkaAlsoKnownAs(handle, Urls(argv))]

akaCommand_password == Password("aka:password", "aka:login")
akaCommand_login == Login("aka:login", "aka:request")
akaCommand_requestPlcOperationSignature ==
    RequestPlcOperationSignature("aka:request", "aka:input")
akaCommand_input == Input("aka:input", "aka:sign")
akaCommand_signPlcOperation ==
    SignPlcOperationCall("aka:sign", "aka:submit", AkaSignInput)
akaCommand_submitPlcOperation ==
    SubmitPlcOperationCall("aka:submit", "aka", Urls(argv), {"success"}, <<>>)

(***************************************************************************)
(* at rotation <handle> [key]                                              *)
(***************************************************************************)
\* faulty variant: the prefix is added to every key
NormalizeAlwaysPrefixes(rawKey) == <<"did:key:">> \o rawKey

\* const key = rawKey.startsWith('did:key:') ? rawKey : `did:key:${rawKey}`
NormalizeKey(rawKey) ==
    IF StartsWith(rawKey, <<"did:key:">>) THEN rawKey ELSE <<"did:key:">> \o rawKey

\* the yargs handler of `rotation`: removeCommand if argv.remove, else rotationCommand
rotationHandlerUpTo(limit) ==
    /\ Fresh(limit)
    /\ \E a \in RotationArgv :
        /\ argv' = a
        /\ IF Truthy(a.remove)
           THEN /\ key' = NormalizeKey(a.remove)
                /\ pc' = "remove:password"
           ELSE /\ key' = None
                /\ pc' = "rotation:key"
    /\ failed' = "none"
    /\ exitCode' = -1

rotationHandler == rotationHandlerUpTo(MaxRuns)

\* Step 1: get or generate the private key, validate it, import it.  The regular
\* expression accepts upper case; whether import then parses or rejects upper-case
\* hex is the library's choice, and both outcomes are kept.
rotationCommand_key ==
    /\ pc = "rotation:key"
    /\ \E hex \in IF Truthy(argv.key) THEN {argv.key} ELSE GeneratedHex :
        /\ privateKeyHex' = hex
        /\ isNewKey' = ~Truthy(argv.key)
        /\ IF ~MatchesHex(hex)
           THEN Catch("validate") /\ UNCHANGED didKey
           ELSE IF ~ValidScalar(Scalar(hex))
           THEN Catch("import") /\ UNCHANGED didKey
           ELSE \/ didKey' = DidOf(Scalar(hex)) /\ Goto("rotation:password")
                \/ /\ \E i \in 1..Len(hex) : hex[i] = "A"
                   /\ Catch("import") /\ UNCHANGED didKey
    /\ UNCHANGED lookup
    /\ UNCHANGED <<provider, runs, argv, before, passwordInput, key, current, emailCode,
                   promptError, signArgs, signed, calls, stdout, history>>

rotationCommand_password == Password("rotation:password", "rotation:login")
rotationCommand_login == Login("rotation:login", "rotation:credentials")

\* the rotation keys of a response, `|| []`
KeysOf(data) == data.rotationKeys

\* faulty variant: the already-exists check is missing
CredentialsWithoutCheck ==
    /\ pc = "rotation:credentials"
    /\ calls' = Append(calls, "getRecommendedDidCredentials")
    /\ \/ current' = recommended /\ Goto("rotation:request")
       \/ Catch("getRecommendedDidCredentials") /\ UNCHANGED current
    /\ UNCHANGED lookup
    /\ UNCHANGED <<provider, runs, argv, before, passwordInput, privateKeyHex, isNewKey,
                   didKey, key, emailCode, promptError, signArgs, signed, history, stdout>>

\* await getRecommendedDidCredentials(), then the already-exists check
rotationCommand_getRecommendedDidCredentials ==
    /\ pc = "rotation:credentials"
    /\ calls' = Append(calls, "getRecommendedDidCredentials")
    /\ \/ /\ current' = recommended
          /\ IF Includes(KeysOf(recommended), didKey)
             THEN stdout' = stdout \cup {"exists"} /\ Return
             ELSE Goto("rotation:request") /\ UNCHANGED stdout
       \/ Catch("getRecommendedDidCredentials") /\ UNCHANGED <<current, stdout>>
    /\ UNCHANGED lookup
    /\ UNCHANGED <<provider, runs, argv, before, passwordInput, privateKeyHex, isNewKey,
                   didKey, key, emailCode, promptError, signArgs, signed, history>>

rotationCommand_requestPlcOperationSignature ==
    RequestPlcOperationSignature("rotation:request", "rotation:input")
rotationCommand_input == Input("rotation:input", "rotation:sign")

\* const newRotationKeys = [...(current.data.rotationKeys || []), didKey]
AddRotationKeys(keys, k) == keys \o <<k>>

RotationSignInput ==
    [token |-> Trim(emailCode),
     rotationKeys |-> AddRotationKeys(KeysOf(current), didKey),
     verificationMethods |-> current.verificationMethods,
     services |-> current.services,
     alsoKnownAs |-> current.alsoKnownAs]

rotationCommand_signPlcOperation ==
    SignPlcOperationCall("rotation:sign", "rotation:submit", RotationSignInput)

\* what the command prints after the submission
RotationPrinted ==
    {"success"} \cup (IF isNewKey THEN {"privateKey:" \o argv.format} ELSE {})

\* the jwk object rotationCommand builds for each key create() can give: the private
\* bytes read back from the hex string, the public key of the keypair
RotationJwk ==
    [hex \in GeneratedHex |-> Jwk(FromHex(hex), PublicKeyBytes(Scalar(hex)))]

\* faulty variant: the private key is printed whoever supplied it
RotationValuesAlways == <<[hex |-> privateKeyHex]>>

\* the keypair in the requested format, if it is a new key
RotationValues ==
    IF ~isNewKey THEN <<>>
    ELSE IF argv.format = "hex" THEN <<[hex |-> privateKeyHex]>>
    ELSE IF argv.format = "json"
    THEN <<[publicKey |-> didKey, privateKey |-> privateKeyHex]>>
    ELSE <<RotationJwk[privateKeyHex]>>

rotationCommand_submitPlcOperation ==
    SubmitPlcOperationCall("rotation:submit", "add", didKey, RotationPrinted,
                           RotationValues)

(***************************************************************************)
(* at rotation <handle> --remove <key>                                     *)
(***************************************************************************)
removeCommand_password == Password("remove:password", "remove:login")
removeCommand_login == Login("remove:login", "remove:resolveHandle")

\* await agent.resolveHandle({ handle })
removeCommand_resolveHandle ==
    /\ pc = "remove:resolveHandle"
    /\ calls' = Append(calls, "resolveHandle")
    /\ \/ IF StartsWith(did, <<"did:plc:">>)
          THEN Goto("remove:getDidLog")
          ELSE Goto("remove:credentials")
       \/ Catch("resolveHandle")
    /\ UNCHANGED lookup
    /\ UNCHANGED <<provider, runs, argv, before, locals, stdout, history>>

\* faulty variant: the last rotation key is never given up
RemoveCheckKeepsOne(data) ==
    /\ current' = data
    /\ IF ~Includes(KeysOf(data), key) \/ Len(KeysOf(data)) = 1
       THEN stdout' = stdout \cup {"notfound"} /\ Return
       ELSE Goto("remove:request") /\ UNCHANGED stdout

\* faulty variant: the membership check is missing
RemoveCheckAlwaysProceeds(data) ==
    /\ current' = data
    /\ Goto("remove:request")
    /\ UNCHANGED stdout

\* if (!currentRotationKeys.includes(key)) { ...; return }
RemoveCheck(data) ==
    /\ current' = data
    /\ IF ~Includes(KeysOf(data), key)
       THEN stdout' = stdout \cup {"notfound"} /\ Return
       ELSE Goto("remove:request") /\ UNCHANGED stdout

\* faulty variant: the operation of the first entry of the log
FirstOperation(entries) ==
    IF entries # <<>>
    THEN Credentials(entries[1])
    ELSE [f \in Fields |-> IF f = "rotationKeys" THEN <<>> ELSE None]

\* const lastEntry = log[log.length - 1]; if (lastEntry) { current... = lastEntry.operation... }
\* with no entry the key list stays [] and the other fields undefined
LastOperation(entries) ==
    IF entries # <<>>
    THEN Credentials(entries[Len(entries)])
    ELSE [f \in Fields |-> IF f = "rotationKeys" THEN <<>> ELSE None]

\* await getDidLog(did): the operation of the last entry
removeCommand_getDidLog ==
    /\ pc = "remove:getDidLog"
    /\ calls' = Append(calls, "getDidLog")
    /\ \/ RemoveCheck(LastOperation(log))
       \/ Catch("getDidLog") /\ UNCHANGED <<current, stdout>>
    /\ UNCHANGED lookup
    /\ UNCHANGED <<provider, runs, argv, before, passwordInput, privateKeyHex, isNewKey,
                   didKey, key, emailCode, promptError, signArgs, signed, history>>

\* the fallback for a DID that is not did:plc
removeCommand_getRecommendedDidCredentials ==
    /\ pc = "remove:credentials"
    /\ calls' = Append(calls, "getRecommendedDidCredentials")
    /\ \/ RemoveCheck(recommended)
       \/ Catch("getRecommendedDidCredentials") /\ UNCHANGED <<current, stdout>>
    /\ UNCHANGED lookup
    /\ UNCHANGED <<provider, runs, argv, before, passwordInput, privateKeyHex, isNewKey,
                   didKey, key, emailCode, promptError, signArgs, signed, history>>

removeCommand_requestPlcOperationSignature ==
    RequestPlcOperationSignature("remove:request", "remove:input")
removeCommand_input == Input("remove:input", "remove:sign")

\* faulty variant: only the first entry that equals the key is removed
RemoveFirstOnly(keys, k) ==
    IF Includes(keys, k)
    THEN LET i == CHOOSE j \in 1..Len(keys) :
                      keys[j] = k /\ \A m \in 1..(j - 1) : keys[m] # k
         IN  SubSeq(keys, 1, i - 1) \o SubSeq(keys, i + 1, Len(keys))
    ELSE keys

\* const newRotationKeys = currentRotationKeys.filter(k => k !== key)
RemoveRotationKeys(keys, k) == SelectSeq(keys, LAMBDA e : e # k)

RemoveSignInput ==
    [token |-> Trim(emailCode),
     rotationKeys |-> RemoveRotationKeys(KeysOf(current), key),
     verificationMethods |-> current.verificationMethods,
     services |-> current.services,
     alsoKnownAs |-> current.alsoKnownAs]

removeCommand_signPlcOperation ==
    SignPlcOperationCall("remove:sign", "remove:submit", RemoveSignInput)
removeCommand_submitPlcOperation ==
    SubmitPlcOperationCall("remove:submit", "remove", key, {"success"}, <<>>)

(***************************************************************************)
(* at keys                                                                 *)
(***************************************************************************)
KeysArgv ==
    {[cmd |-> "keys", url |-> None, key |-> None, remove |-> None, format |-> f] :
        f \in Formats}

\* the yargs handler of `keys`
keysHandlerUpTo(limit) ==
    /\ Fresh(limit)
    /\ argv' \in KeysArgv
    /\ key' = None
    /\ failed' = "none"
    /\ exitCode' = -1
    /\ pc' = "keys:create"

keysHandler == keysHandlerUpTo(MaxRuns)

\* what keysCommand prints for a keypair
\* the jwk object keysCommand builds for each key create() can give
KeysJwk ==
    [privateKeyBytes \in GeneratedBytes |->
        Jwk(privateKeyBytes, PublicKeyBytes(FromDigits(privateKeyBytes, 16)))]

KeysValue(format, privateKeyBytes) ==
    IF format = "hex" THEN [hex |-> ToHex(privateKeyBytes)]
    ELSE IF format = "json"
    THEN [publicKey |-> DidOf(FromDigits(privateKeyBytes, 16)),
          privateKey |-> ToHex(privateKeyBytes)]
    ELSE KeysJwk[privateKeyBytes]

\* await Secp256k1Keypair.create, await keypair.export, console.log by format
keysCommand_create ==
    /\ pc = "keys:create"
    /\ \E privateKeyBytes \in GeneratedBytes :
        /\ privateKeyHex' = ToHex(privateKeyBytes)
        /\ output' = Append(output, KeysValue(argv.format, privateKeyBytes))
    /\ Return
    /\ UNCHANGED <<provider, runs, argv, before, passwordInput, isNewKey, didKey, key,
                   current, emailCode, promptError, signArgs, signed, calls, stdout,
                   resolved, requests, history>>

(***************************************************************************)
(* at did <handleOrDid> [--log]                                            *)
(***************************************************************************)
\* s.replace(pattern, replacement): the first occurrence of the token only
RECURSIVE ReplaceFirst(_, _, _)
ReplaceFirst(s, pattern, replacement) ==
    IF s = <<>> THEN <<>>
    ELSE IF Head(s) = pattern THEN replacement \o Tail(s)
    ELSE <<Head(s)>> \o ReplaceFirst(Tail(s), pattern, replacement)

\* s.startsWith('did:'): each scheme prefix token begins with did:
StartsWithDid(s) == s # <<>> /\ Head(s) \in {"did:plc:", "did:web:", "did:key:"}

\* the handles and identifiers of the command line: the account's handle bare and
\* with @, an unknown handle, a registered and an unregistered did:plc, did:web
\* with a bare domain and with path parts, and another method
DidArgs ==
    {<<"h">>, <<"@", "h">>, <<"n">>,
     <<"did:plc:", "x">>, <<"did:plc:", "y">>,
     <<"did:web:", "d">>, <<"did:web:", "d", ":", "p">>,
     <<"did:web:", "d", ":", "p", ":", "q">>,
     <<"did:key:", "z">>}

DidArgv ==
    {[cmd |-> "did", url |-> None, key |-> None, remove |-> None, format |-> "json",
      handleOrDid |-> a, log |-> l] : a \in DidArgs, l \in BOOLEAN}

\* the yargs handler of `did`
didHandlerUpTo(limit) ==
    /\ Fresh(limit)
    /\ argv' \in DidArgv
    /\ key' = None
    /\ failed' = "none"
    /\ exitCode' = -1
    /\ pc' = "did:resolve"

didHandler == didHandlerUpTo(MaxRuns)

\* handleOrDid with a leading @ stripped
StripAt(handleOrDid) ==
    IF StartsWith(handleOrDid, <<"@">>) THEN Tail(handleOrDid) ELSE handleOrDid

\* the handles the provider can resolve
KnownHandles == {handle}

\* the identifiers the PLC directory has registered; `log` is the audit log of each
Registered == {<<"did:plc:", "x">>}

\* JSON values: a DID document, the body of a non-success response, an audit log
Document(d) == [json |-> "object", id |-> d, entries |-> <<>>]
ErrorBody == [json |-> "object", id |-> None, entries |-> <<>>]
AuditLog(ops) == [json |-> "array", id |-> None, entries |-> ops]

\* `https://plc.directory/${did}`
PlcUrl(d) == <<"https://", "plc.directory", "/">> \o d

\* `${plcUrl}/${did}/log/audit`
PlcLogUrl(d) == <<"https://", "plc.directory", "/">> \o d \o <<"/log/audit">>

\* did.replace('did:web:', '').replace(':', '/'), then the well-known path
WebUrl(d) ==
    LET webPart == ReplaceFirst(ReplaceFirst(d, "did:web:", <<>>), ":", <<"/">>)
    IN  <<"https://">> \o webPart \o <<"/.well-known/did.json">>

\* what response.json() of the directory can give for an identifier
PlcResponses(d) == {ErrorBody} \cup (IF d \in Registered THEN {Document(d)} ELSE {})

\* what response.json() of a web host can give
WebResponses(d) == {ErrorBody, Document(d)}

\* faulty variant: the audit log is asked for whatever the method
DispatchLogAlways(d) ==
    IF argv.log
    THEN Goto("did:getDidLog")
    ELSE IF StartsWith(d, <<"did:plc:">>) THEN Goto("did:fetchPlc")
    ELSE IF StartsWith(d, <<"did:web:">>) THEN Goto("did:fetchWeb")
    ELSE Catch("method")

\* the synchronous code after `did` is set, up to the next await
Dispatch(d) ==
    IF argv.log
    THEN IF ~StartsWith(d, <<"did:plc:">>) THEN Catch("log") ELSE Goto("did:getDidLog")
    ELSE IF StartsWith(d, <<"did:plc:">>) THEN Goto("did:fetchPlc")
    ELSE IF StartsWith(d, <<"did:web:">>) THEN Goto("did:fetchWeb")
    ELSE Catch("method")

\* faulty variant: the provider is asked about every input
ResolveAlwaysAsks ==
    /\ pc = "did:resolve"
    /\ calls' = Append(calls, "resolveHandle")
    /\ \/ /\ StartsWithDid(argv.handleOrDid) \/ StripAt(argv.handleOrDid) \in KnownHandles
          /\ resolved' = IF StartsWithDid(argv.handleOrDid) THEN argv.handleOrDid ELSE did
          /\ Dispatch(resolved')
       \/ Catch("resolveHandle") /\ UNCHANGED resolved
    /\ UNCHANGED <<provider, runs, argv, before, locals, stdout, requests, output, history>>

\* did = handleOrDid, or await agent.resolveHandle({ handle })
didCommand_resolve ==
    /\ pc = "did:resolve"
    /\ IF StartsWithDid(argv.handleOrDid)
       THEN /\ resolved' = argv.handleOrDid
            /\ Dispatch(resolved')
            /\ UNCHANGED calls
       ELSE /\ calls' = Append(calls, "resolveHandle")
            /\ \/ /\ StripAt(argv.handleOrDid) \in KnownHandles
                  /\ resolved' = did
                  /\ Dispatch(resolved')
               \/ Catch("resolveHandle") /\ UNCHANGED resolved
    /\ UNCHANGED <<provider, runs, argv, before, locals, stdout, requests, output, history>>

\* await getDidLog(did); console.log(JSON.stringify(logData))
didCommand_getDidLog ==
    /\ pc = "did:getDidLog"
    /\ calls' = Append(calls, "getDidLog")
    /\ requests' = Append(requests, PlcLogUrl(resolved))
    /\ \/ /\ resolved \in Registered
          /\ output' = Append(output, AuditLog(log))
          /\ Goto("did:logFetchPlc")
       \/ Catch("getDidLog") /\ UNCHANGED output
    /\ UNCHANGED <<provider, runs, argv, before, locals, stdout, resolved, history>>

\* faulty variant: the document fetched after the log is printed as well
LogFetchPrints ==
    /\ pc = "did:logFetchPlc"
    /\ calls' = Append(calls, "fetch")
    /\ requests' = Append(requests, PlcUrl(resolved))
    /\ \/ \E didDoc \in PlcResponses(resolved) :
            output' = Append(output, didDoc) /\ Return
       \/ Catch("fetch") /\ UNCHANGED output
    /\ UNCHANGED <<provider, runs, argv, before, locals, stdout, resolved, history>>

\* with --log: the document is fetched after the log was printed, and returned
didCommand_logFetchPlc ==
    /\ pc = "did:logFetchPlc"
    /\ calls' = Append(calls, "fetch")
    /\ requests' = Append(requests, PlcUrl(resolved))
    /\ \/ \E didDoc \in PlcResponses(resolved) : Return
       \/ Catch("fetch")
    /\ UNCHANGED <<provider, runs, argv, before, locals, stdout, resolved, output, history>>

\* await fetch(url); didDoc = await response.json(); console.log(JSON.stringify(didDoc))
Fetch(at, url, responses) ==
    /\ pc = at
    /\ calls' = Append(calls, "fetch")
    /\ requests' = Append(requests, url)
    /\ \/ \E didDoc \in responses :
            /\ output' = Append(output, didDoc)
            /\ Return
       \/ Catch("fetch") /\ UNCHANGED output
    /\ UNCHANGED <<provider, runs, argv, before, locals, stdout, resolved, history>>

didCommand_fetchPlc == Fetch("did:fetchPlc", PlcUrl(resolved), PlcResponses(resolved))
didCommand_fetchWeb == Fetch("did:fetchWeb", WebUrl(resolved), WebResponses(resolved))

(***************************************************************************)
(* The specification.                                                      *)
(***************************************************************************)
\* the steps of a running invocation
Step ==
    \/ akaCommand_password
    \/ akaCommand_login
    \/ akaCommand_requestPlcOperationSignature
    \/ akaCommand_input
    \/ akaCommand_signPlcOperation
    \/ akaCommand_submitPlcOperation
    \/ rotationCommand_key
    \/ rotationCommand_password
    \/ rotationCommand_login
    \/ rotationCommand_getRecommendedDidCredentials
    \/ rotationCommand_requestPlcOperationSignature
    \/ rotationCommand_input
    \/ rotationCommand_signPlcOperation
    \/ rotationCommand_submitPlcOperation
    \/ removeCommand_password
    \/ removeCommand_login
    \/ removeCommand_resolveHandle
    \/ removeCommand_getDidLog
    \/ removeCommand_getRecommendedDidCredentials
    \/ removeCommand_requestPlcOperationSignature
    \/ removeCommand_input
    \/ removeCommand_signPlcOperation
    \/ removeCommand_submitPlcOperation
    \/ keysCommand_create
    \/ didCommand_resolve
    \/ didCommand_getDidLog
    \/ didCommand_logFetchPlc
    \/ didCommand_fetchPlc
    \/ didCommand_fetchWeb

\* invocations one after another
Next ==
    \/ akaHandler
    \/ rotationHandler
    \/ didHandler
    \/ keysHandler
    \/ Step

Spec == Init /\ [][Next]_vars

\* one invocation, from every state of the account
NextOnce ==
    \/ akaHandlerUpTo(1)
    \/ rotationHandlerUpTo(1)
    \/ didHandlerUpTo(1)
    \/ keysHandlerUpTo(1)
    \/ Step

SpecOnce == Init /\ [][NextOnce]_vars

\* one invocation in which every awaited call returns and the operator answers every
\* prompt: a step that can be taken is taken
SpecLive == Init /\ [][NextOnce]_vars /\ WF_vars(Step)

(***************************************************************************)
(* Vocabulary of the properties.                                           *)
(***************************************************************************)
InAka == argv.cmd = "aka"
InAdd == argv.cmd = "rotation" /\ ~Truthy(argv.remove)
InRemove == argv.cmd = "rotation" /\ Truthy(argv.remove)

Called(c) == Includes(calls, c)

Succeeded == pc = "exit" /\ "success" \in stdout

\* the running invocation has submitted an operation
SubmittedThisRun == history # <<>> /\ Last(history).run = runs

\* the account's state when the running invocation started
Before == before

MutatingCalls ==
    {"requestPlcOperationSignature", "signPlcOperation", "submitPlcOperation"}

NoMutatingCall == \A c \in MutatingCalls : ~Called(c)

Occurrences(list, x) == Cardinality({i \in 1..Len(list) : list[i] = x})

\* list without its i-th entry
RemoveAt(list, i) == SubSeq(list, 1, i - 1) \o SubSeq(list, i + 1, Len(list))

(***************************************************************************)
(* C1.  Idempotence of add: when an add workflow with key K has been       *)
(* submitted successfully and the next invocation is an add workflow with  *)
(* the same K, that second run makes no requestPlcOperationSignature,      *)
(* signPlcOperation or submitPlcOperation call.                            *)
(***************************************************************************)
C1_SecondAddShortCircuits ==
    (/\ InAdd
     /\ didKey # None
     /\ history # <<>>
     /\ Last(history) = [run |-> runs - 1, cmd |-> "add", arg |-> didKey])
    => NoMutatingCall

(***************************************************************************)
(* C2.  Add appends and keeps every existing key: the rotation-key list    *)
(* the add workflow submits is the account's current list, in its order,   *)
(* with the candidate appended last.                                       *)
(***************************************************************************)
C2_AddAppendsToCurrentKeys ==
    (InAdd /\ pc = "rotation:submit" /\ ~Includes(State.rotationKeys, didKey))
    => signArgs.rotationKeys = State.rotationKeys \o <<didKey>>

(***************************************************************************)
(* C3.  Add preserves all other fields: after a successful add workflow    *)
(* the account's alsoKnownAs, verificationMethods and services are what    *)
(* they were before it.                                                    *)
(***************************************************************************)
C3_AddPreservesOtherFields ==
    (InAdd /\ Succeeded)
    => \A f \in Fields \ {"rotationKeys"} : State[f] = Before[f]

(***************************************************************************)
(* C4.  Removal of an absent key is a no-op: when the normalized key is    *)
(* not in the rotation-key list the remove workflow fetched, the workflow  *)
(* makes no requestPlcOperationSignature, signPlcOperation or              *)
(* submitPlcOperation call, the account's state is what it was when the    *)
(* workflow started, and the process ends with exit status 0 and no error. *)
(***************************************************************************)
Fetched == current # NoRecord

C4_RemoveAbsentIsNoOp ==
    (InRemove /\ Fetched /\ ~Includes(current.rotationKeys, key))
    => /\ NoMutatingCall
       /\ ~SubmittedThisRun
       /\ State = Before
       /\ pc = "exit"
       /\ exitCode = 0
       /\ failed = "none"

C4_Witness ==
    /\ InRemove
    /\ Fetched
    /\ ~Includes(current.rotationKeys, key)
    /\ "notfound" \in stdout
    /\ Includes(recommended.rotationKeys, key)

KeptIndex(list, k, j) ==
    CHOOSE i \in 1..Len(list) :
        /\ list[i] # k
        /\ Cardinality({m \in 1..i : list[m] # k}) = j

C6_AkaAppendsToPrevious ==
    (InAka /\ pc = "aka:submit" /\ Len(Urls(argv)) = 1)
    => LET old == State.alsoKnownAs
           new == signArgs.alsoKnownAs
       IN  /\ \A i \in 1..Len(old) : Includes(new, old[i])
           /\ Len(new) = Len(old) + 1
           /\ new[1] = SelfId(handle)
           /\ new[Len(new)] = argv.url

(***************************************************************************)
(* C7.  Resulting alsoKnownAs of aka: the list the aka workflow submits,   *)
(* and the account's list after it succeeded, is at://<handle> followed    *)
(* by the URLs of the command line (its pieces between the spaces) in      *)
(* their order, whatever the account's list was before.                    *)
(***************************************************************************)
\* the pieces joined with one space between them
RECURSIVE JoinSp(_)
JoinSp(pieces) ==
    IF Len(pieces) = 1 THEN pieces[1]
    ELSE pieces[1] \o <<" ">> \o JoinSp(Tail(pieces))

IsSelfThenUrls(list) ==
    /\ Len(list) >= 2
    /\ list[1] = <<"at://", "h">>
    /\ \A i \in 2..Len(list) : ~Includes(list[i], " ")
    /\ JoinSp(Tail(list)) = argv.url

C8_AkaPreservesOtherFields ==
    /\ (InAka /\ Succeeded) =>
            \A f \in Fields \ {"alsoKnownAs"} : State[f] = Before[f]
    /\ (InAka /\ Called("signPlcOperation")) =>
            DOMAIN signArgs = {"token", "alsoKnownAs"}

C8_Witness ==
    /\ InAka
    /\ Succeeded
    /\ State.alsoKnownAs # Before.alsoKnownAs
    /\ State.rotationKeys # <<>>
    /\ State.rotationKeys # recommended.rotationKeys

(***************************************************************************)
(* C9.  Workflow order: in every invocation of the three workflows the     *)
(* steps login, requestPlcOperationSignature, code entry, signPlcOperation *)
(* and submitPlcOperation happen in that order, none without the ones      *)
(* before it; no prompt or provider call happens twice; and once the       *)
(* process has ended (submitted, aborted or returned) it makes no call.    *)
(***************************************************************************)
Order ==
    <<"login", "requestPlcOperationSignature", "input", "signPlcOperation",
      "submitPlcOperation">>

Steps == SelectSeq(calls, LAMBDA c : Includes(Order, c))

C9_Ordered ==
    /\ Len(Steps) <= Len(Order)
    /\ Steps = SubSeq(Order, 1, Len(Steps))
    /\ \A i, j \in 1..Len(calls) : i # j => calls[i] # calls[j]

C9_NothingAfterEnd ==
    pc = "exit" => (runs' = runs + 1 \/ UNCHANGED <<calls, provider, stdout>>)

C9_WorkflowOrder == [](C9_Ordered) /\ [][C9_NothingAfterEnd]_vars

C9_Witness ==
    /\ InRemove
    /\ Succeeded
    /\ Steps = Order

(***************************************************************************)
(* C10.  Fatal errors abort with no retry: when login,                     *)
(* requestPlcOperationSignature, signPlcOperation or submitPlcOperation    *)
(* has failed, the failed call is the last thing the invocation did and    *)
(* was made once, no later step was taken, nothing was submitted, no       *)
(* success message was printed, and the process has ended with a non-zero  *)
(* exit status.                                                            *)
(***************************************************************************)
Fatal ==
    {"login", "requestPlcOperationSignature", "signPlcOperation", "submitPlcOperation"}

PositionIn(list, x) == CHOOSE i \in 1..Len(list) : list[i] = x

C10_FatalErrorsAbort ==
    failed \in Fatal
    => /\ pc = "exit"
       /\ exitCode \notin {-1, 0}
       /\ "success" \notin stdout
       /\ calls # <<>>
       /\ calls[Len(calls)] = failed
       /\ Occurrences(calls, failed) = 1
       /\ \A i \in (PositionIn(Order, failed) + 1)..Len(Order) : ~Called(Order[i])
       /\ ~SubmittedThisRun
       /\ State = Before

C10_Witness ==
    /\ InRemove
    /\ failed = "signPlcOperation"
    /\ pendingCode

(***************************************************************************)
(* C11.  Only submission mutates the account: while an invocation of a     *)
(* mutation workflow has not made its submitPlcOperation call, the         *)
(* account's operations and its state (rotation keys, alsoKnownAs,         *)
(* verification methods, services) are what they were when it started; and *)
(* when the process stops after the confirmation request succeeded and     *)
(* before the sign-and-submit step, the state is unchanged and the         *)
(* confirmation code is outstanding and unused.                            *)
(***************************************************************************)
InMutation == InAka \/ InAdd \/ InRemove

\* the confirmation was requested and the sign-and-submit step has not begun
AwaitingSign ==
    pc \in {"aka:input", "aka:sign", "rotation:input", "rotation:sign",
            "remove:input", "remove:sign"}

CodePrompts == {"aka:input", "rotation:input", "remove:input"}

SignSteps == {"aka:sign", "rotation:sign", "remove:sign"}

NonEmptyTrimmed(s) ==
    /\ s # <<>>
    /\ Head(s) # " "
    /\ s[Len(s)] # " "

C12_CodeNeverEmpty ==
    /\ promptError => (pc \in CodePrompts /\ ~Called("input") /\ emailCode = None)
    /\ (pc \in SignSteps \/ Called("signPlcOperation")) =>
            /\ emailCode # None
            /\ \E i \in 1..Len(emailCode) : emailCode[i] # " "
            /\ Called("input")
    /\ Called("signPlcOperation") =>
            /\ NonEmptyTrimmed(signArgs.token)
            /\ \E i, j \in 1..Len(emailCode) : signArgs.token = SubSeq(emailCode, i, j)

C12_Witness ==
    /\ InRemove
    /\ Called("signPlcOperation")
    /\ Head(emailCode) = " "
    /\ signArgs.token = <<"c">>

(***************************************************************************)
(* C13.  A malformed key is rejected before any network call (as claimed): *)
(* when the add workflow is given a key that is not exactly KeyHexLen hex  *)
(* characters of either case, or whose scalar is zero, the process ends    *)
(* with a non-zero exit status at the key step, with no password prompt,   *)
(* no login and no provider call made.                                     *)
(***************************************************************************)
Malformed(k) == ~MatchesHex(k) \/ Scalar(k) = 0

C13_MalformedKeyRejected ==
    (InAdd /\ argv.key # None /\ Malformed(argv.key) /\ pc # "rotation:key")
    => /\ pc = "exit"
       /\ exitCode \notin {-1, 0}
       /\ failed \in {"validate", "import"}
       /\ calls = <<>>

(***************************************************************************)
(* C14.  Removal accepts both key forms: for every encoded key z, the      *)
(* bare form z and the prefixed form did:key:z are normalized to the same  *)
(* key, and the remove workflow depends on its argument through that key   *)
(* only: it takes the not-found branch exactly when the fetched list does  *)
(* not hold the key, and otherwise signs the fetched list without it.  So  *)
(* both forms take the same branch and submit the same list.               *)
(***************************************************************************)
\* the encoded keys of the command lines, without the prefix
BareKeys == {Tail(k) : k \in RemoveKeys}

\* the encoded key of a --remove value, whichever form it has
BareForm(r) == IF StartsWith(r, <<"did:key:">>) THEN Tail(r) ELSE r

C14_BothKeyForms ==
    /\ \A z \in BareKeys :
            /\ NormalizeKey(z) = NormalizeKey(<<"did:key:">> \o z)
            /\ NormalizeKey(z) = <<"did:key:">> \o z
    /\ InRemove =>
            /\ key = NormalizeKey(BareForm(argv.remove))
            /\ key = NormalizeKey(<<"did:key:">> \o BareForm(argv.remove))
            /\ Fetched =>
                    /\ ("notfound" \in stdout) <=> ~Includes(current.rotationKeys, key)
                    /\ Includes(current.rotationKeys, key) =>
                            (pc = "remove:request" \/ Called("requestPlcOperationSignature"))
            /\ Called("signPlcOperation") =>
                    signArgs.rotationKeys =
                        SelectSeq(current.rotationKeys, LAMBDA e : e # key)

C14_Witness ==
    /\ InRemove
    /\ ~StartsWith(argv.remove, <<"did:key:">>)
    /\ key = <<"did:key:">> \o argv.remove
    /\ Succeeded
    /\ ~Includes(State.rotationKeys, key)
    /\ Includes(Before.rotationKeys, key)

(***************************************************************************)
(* C15.  The document id matches the request (as claimed): whenever `did`  *)
(* is invoked with a did:plc identifier, without --log, and the process    *)
(* ends with exit status 0, it wrote one JSON document whose id is the     *)
(* identifier of the command line, whatever the directory answered.        *)
(***************************************************************************)
InDid == argv.cmd = "did"

Ended == pc = "exit"

C15_DocumentIdMatches ==
    (/\ InDid
     /\ StartsWith(argv.handleOrDid, <<"did:plc:">>)
     /\ ~argv.log
     /\ Ended
     /\ exitCode = 0)
    => /\ Len(output) = 1
       /\ output[1].json = "object"
       /\ output[1].id = argv.handleOrDid

(***************************************************************************)
(* C16.  Resolve passes identifiers through: when the input of `did`       *)
(* starts with did:, the identifier looked up is the input unchanged and   *)
(* no resolveHandle call is made; otherwise exactly one resolveHandle call *)
(* is made and what it returned is the identifier looked up.  Every fetch  *)
(* of the invocation is for that identifier.                               *)
(***************************************************************************)
\* the URLs the command can ask for an identifier
UrlsOf(d) == {PlcUrl(d), PlcLogUrl(d), WebUrl(d)}

C16_ResolvePassesThrough ==
    (InDid /\ pc # "did:resolve")
    => /\ StartsWithDid(argv.handleOrDid) =>
            /\ resolved = argv.handleOrDid
            /\ ~Called("resolveHandle")
       /\ ~StartsWithDid(argv.handleOrDid) =>
            /\ Occurrences(calls, "resolveHandle") = 1
            /\ calls[1] = "resolveHandle"
            /\ IF failed = "resolveHandle"
               THEN resolved = None /\ requests = <<>>
               ELSE resolved = did
       /\ \A i \in 1..Len(requests) : requests[i] \in UrlsOf(resolved)

C16_Witness ==
    /\ InDid
    /\ argv.handleOrDid = <<"@", "h">>
    /\ Ended
    /\ exitCode = 0
    /\ resolved = did
    /\ Len(requests) = 1
    /\ Len(output) = 1

(***************************************************************************)
(* C17.  The document fetch dispatches on the method (as claimed): without *)
(* --log, a did:plc identifier is fetched from the PLC directory by        *)
(* identifier, a did:web identifier from /.well-known/did.json under the   *)
(* domain embedded in the identifier, and for any other method the process *)
(* ends with a non-zero exit status having fetched nothing.                *)
(***************************************************************************)
\* the domain of a did:web identifier: what follows the prefix, up to the first colon
DomainOf(d) == d[2]

LookedUp == InDid /\ ~argv.log /\ resolved # None /\ Ended

C17_FetchDispatch ==
    LookedUp
    => IF StartsWith(resolved, <<"did:plc:">>)
       THEN requests = <<(<<"https://", "plc.directory", "/">> \o resolved)>>
       ELSE IF StartsWith(resolved, <<"did:web:">>)
       THEN requests = <<(<<"https://", DomainOf(resolved), "/.well-known/did.json">>)>>
       ELSE /\ requests = <<>>
            /\ output = <<>>
            /\ exitCode \notin {-1, 0}

(***************************************************************************)
(* C18.  History is only for did:plc identifiers: when `did --log` looks   *)
(* up an identifier that does not start with did:plc:, given as such or    *)
(* resolved from a handle, the process ends with a non-zero exit status,   *)
(* has written nothing to stdout and has made no request, so none to the   *)
(* audit-log endpoint of the directory.                                    *)
(***************************************************************************)
C18_LogOnlyForPlc ==
    (InDid /\ argv.log /\ resolved # None /\ ~StartsWith(resolved, <<"did:plc:">>))
    => /\ Ended
       /\ exitCode \notin {-1, 0}
       /\ failed = "log"
       /\ output = <<>>
       /\ stdout = {}
       /\ requests = <<>>
       /\ ~Called("getDidLog")

C18_Witness ==
    /\ InDid
    /\ argv.log
    /\ argv.handleOrDid = <<"h">>
    /\ Called("resolveHandle")
    /\ StartsWith(resolved, <<"did:web:">>)
    /\ Ended

(***************************************************************************)
(* C19.  --log prints the log instead of the document: a `did --log` that  *)
(* ends with exit status 0 has written exactly one JSON value, the audit   *)
(* log of the identifier, an array, and at no point a document; a `did`    *)
(* without the flag that ends with exit status 0 has written exactly one   *)
(* JSON value, an object, so the two outputs differ.                       *)
(***************************************************************************)
DidSucceeded == InDid /\ Ended /\ exitCode = 0

PrintedResult ==
    /\ Len(output) = 1
    /\ IF argv.log THEN output[1].json = "array" ELSE output[1].id # None

C20_DidExitStatus ==
    (InDid /\ Ended)
    => /\ (exitCode = 0) <=> PrintedResult
       /\ failed = "resolveHandle" => (exitCode \notin {-1, 0} /\ output = <<>>)

(***************************************************************************)
(* C21.  Output of `keys --format json` (as claimed): the command ends     *)
(* with exit status 0 having printed one JSON object whose privateKey is   *)
(* a lower-case hex string of the key length and whose publicKey is a      *)
(* compressed public key in hex: 02 or 03 followed by the hex of x.        *)
(***************************************************************************)
InKeys == argv.cmd = "keys"

LowerHex(s) == \A i \in 1..Len(s) : \E j \in 1..16 : s[i] = HexAlphabet[j]

\* /^0[23][0-9a-f]{64}$/, scaled to the key length
CompressedHex(s) ==
    /\ Len(s) = 1 + KeyHexLen
    /\ s[1] \in {"02", "03"}
    /\ LowerHex(Tail(s))

C21_KeysJsonOutput ==
    (InKeys /\ argv.format = "json" /\ Ended)
    => /\ exitCode = 0
       /\ Len(output) = 1
       /\ DOMAIN output[1] = {"publicKey", "privateKey"}
       /\ Len(output[1].privateKey) = KeyHexLen
       /\ LowerHex(output[1].privateKey)
       /\ CompressedHex(output[1].publicKey)

(***************************************************************************)
(* C22.  JWK export: the JWK printed by `keys --format jwk` and by         *)
(* `rotation --format jwk` has x and y each encoding exactly the key       *)
(* length in bytes, the coordinates of the public point of the keypair,    *)
(* and d encoding exactly the keypair's private scalar; and it is the JWK  *)
(* the other command prints for the same private scalar.                   *)
(***************************************************************************)
\* the position of a character in the base64url alphabet, from 0
Base64Index(c) == (CHOOSE i \in 1..64 : Base64Alphabet[i] = c) - 1

\* the bytes a base64url string encodes: the bits in groups of eight, the bits left
\* over dropped
Base64UrlDecode(chars) ==
    LET bits == 6 * Len(chars)
        value == FromDigits([i \in 1..Len(chars) |-> Base64Index(chars[i])], 64)
    IN  ToDigits(value \div (2 ^ (bits % 8)), 256, bits \div 8)

JwkPrinted ==
    /\ InKeys \/ InAdd
    /\ argv.format = "jwk"
    /\ output # <<>>

C22_JwkExport ==
    JwkPrinted
    => LET jwk == output[1]
           n == Scalar(privateKeyHex)
       IN  /\ Len(output) = 1
           /\ DOMAIN jwk = {"kty", "crv", "x", "y", "d", "key_ops"}
           /\ Len(Base64UrlDecode(jwk.x)) = KeyHexLen
           /\ Len(Base64UrlDecode(jwk.y)) = KeyHexLen
           /\ FromDigits(Base64UrlDecode(jwk.x), 16) = PointOf(n).x
           /\ FromDigits(Base64UrlDecode(jwk.y), 16) = PointOf(n).y
           /\ Base64UrlDecode(jwk.d) = FromHex(privateKeyHex)
           /\ FromDigits(Base64UrlDecode(jwk.d), 16) = n
           /\ jwk = KeysValue("jwk", ToDigits(n, 16, KeyHexLen))
           /\ jwk = Jwk(FromHex(privateKeyHex), PublicKeyBytes(n))

C22_Witness ==
    /\ InAdd
    /\ Succeeded
    /\ argv.format = "jwk"
    /\ Len(output) = 1
    /\ output[1].d # output[1].x
    /\ output[1].x # output[1].y

(***************************************************************************)
(* C23.  Termination: when every provider and directory call returns and   *)
(* the operator answers every prompt, in the end with a non-empty code,    *)
(* every invocation of a mutation workflow reaches the end of the process  *)
(* (submitted, aborted or short-circuited); and no step of a workflow but  *)
(* the code prompt is visited twice: every step moves to a later one,      *)
(* except a refused entry at the code prompt.                              *)
(***************************************************************************)
StepsInOrder ==
    <<{"rotation:key"},
      {"aka:password", "rotation:password", "remove:password"},
      {"aka:login", "rotation:login", "remove:login"},
      {"rotation:credentials", "remove:resolveHandle"},
      {"remove:getDidLog", "remove:credentials"},
      {"aka:request", "rotation:request", "remove:request"},
      {"aka:input", "rotation:input", "remove:input"},
      {"aka:sign", "rotation:sign", "remove:sign"},
      {"aka:submit", "rotation:submit", "remove:submit"},
      {"exit"}>>

Rank(p) == CHOOSE i \in 1..Len(StepsInOrder) : p \in StepsInOrder[i]

Running == InMutation /\ pc \notin {"idle", "exit"}

C23_NoRevisit ==
    Running => \/ Rank(pc') > Rank(pc)
               \/ pc \in CodePrompts /\ pc' = pc

C23_Termination == (Running ~> Ended) /\ [][C23_NoRevisit]_vars

C23_Witness ==
    /\ InAdd
    /\ pc = "rotation:input"
    /\ promptError
    /\ pendingCode

(***************************************************************************)
(* C24.  Add short-circuit within one run: when the rotation keys that     *)
(* getRecommendedDidCredentials returned contain the candidate did:key,    *)
(* the add workflow has printed the notice and ended with exit status 0    *)
(* right after login and the credentials fetch, with no                    *)
(* requestPlcOperationSignature, signPlcOperation or submitPlcOperation    *)
(* call, and no private key printed.                                       *)
(***************************************************************************)
CandidateExists ==
    /\ InAdd
    /\ current # NoRecord
    /\ Includes(current.rotationKeys, didKey)

PrivateKeyPrinted == \E f \in Formats : ("privateKey:" \o f) \in stdout

C24_AddShortCircuit ==
    CandidateExists
    => /\ "exists" \in stdout
       /\ pc = "exit"
       /\ exitCode = 0
       /\ failed = "none"
       /\ Called("login")
       /\ Last(calls) = "getRecommendedDidCredentials"
       /\ NoMutatingCall
       /\ ~SubmittedThisRun
       /\ ~PrivateKeyPrinted
       /\ output = <<>>

C24_Witness ==
    /\ CandidateExists
    /\ "exists" \in stdout
    /\ isNewKey = FALSE
    /\ ~Includes(State.rotationKeys, didKey)

(***************************************************************************)
(* C25.  Source of the current state in removal: for a did:plc account the *)
(* rotation keys, verification methods, services and alternate identifiers *)
(* of the membership check and of the composed state are those of the      *)
(* operation of the last entry of the audit log (no entry: no keys, so the *)
(* key is not found); for any other identifier they are the provider's     *)
(* recommended credentials.  So on a did:plc account a remove workflow     *)
(* that follows a successful add workflow of the same key finds the key.   *)
(***************************************************************************)
IsPlc == StartsWith(did, <<"did:plc:">>)

RemovalSource == IF IsPlc THEN Credentials(Last(log)) ELSE recommended

AddedByPreviousRun(k) ==
    /\ history # <<>>
    /\ Last(history) = [run |-> runs - 1, cmd |-> "add", arg |-> k]

C25_RemovalSource ==
    /\ (InRemove /\ Fetched /\ ~SubmittedThisRun)
       => /\ current = RemovalSource
          /\ ("notfound" \in stdout) <=> ~Includes(RemovalSource.rotationKeys, key)
    /\ (InRemove /\ pc = "remove:submit")
       => /\ signArgs.rotationKeys = RemoveRotationKeys(RemovalSource.rotationKeys, key)
          /\ signArgs.verificationMethods = RemovalSource.verificationMethods
          /\ signArgs.services = RemovalSource.services
          /\ signArgs.alsoKnownAs = RemovalSource.alsoKnownAs
    /\ LastOperation(<<>>).rotationKeys = <<>>
    /\ (InRemove /\ IsPlc /\ Fetched /\ AddedByPreviousRun(key))
       => /\ Includes(current.rotationKeys, key)
          /\ "notfound" \notin stdout

C25_Witness ==
    /\ InRemove
    /\ IsPlc
    /\ AddedByPreviousRun(key)
    /\ pc = "remove:submit"
    /\ ~Includes(recommended.rotationKeys, key)

(***************************************************************************)
(* C26.  The generated private key is shown only after success: in the add *)
(* workflow a private key (hex, json or jwk) is in the output only when    *)
(* this invocation generated the key and submitPlcOperation has succeeded; *)
(* never when the caller supplied the key, when the workflow aborted, or   *)
(* when it short-circuited.                                                *)
(***************************************************************************)
KeyShown == output # <<>> \/ PrivateKeyPrinted

C26_PrivateKeyOnlyAfterSuccess ==
    InAdd =>
        /\ KeyShown =>
              /\ isNewKey
              /\ ~Truthy(argv.key)
              /\ privateKeyHex \in GeneratedHex
              /\ Last(calls) = "submitPlcOperation"
              /\ SubmittedThisRun
              /\ Succeeded
              /\ exitCode = 0
        /\ (Truthy(argv.key) \/ failed # "none" \/ "exists" \in stdout) => ~KeyShown

C26_Witness ==
    /\ InAdd
    /\ Succeeded
    /\ isNewKey
    /\ argv.format = "hex"
    /\ output = <<[hex |-> privateKeyHex]>>
    /\ PrivateKeyPrinted

(***************************************************************************)
(* C27.  --remove never adds a key: when the rotation command is invoked   *)
(* with the --remove option, whatever its value (the empty string too) and *)
(* with or without a positional key, the add workflow is not run: no       *)
(* keypair is generated and no operation that appends a rotation key is    *)
(* submitted.                                                              *)
(***************************************************************************)
RemoveGiven == argv.cmd = "rotation" /\ argv.remove # None

AddSubmittedThisRun == SubmittedThisRun /\ Last(history).cmd = "add"

C27_RemoveNeverAdds ==
    RemoveGiven
    => /\ ~isNewKey
       /\ privateKeyHex = None
       /\ didKey = None
       /\ ~AddSubmittedThisRun
       /\ pc \notin StepsInOrder[1]

(***************************************************************************)
(* C28.  Removing the only rotation key is not guarded: when the key to    *)
(* remove is the sole entry of the fetched rotation-key list, the remove   *)
(* workflow goes on to request a code, calls signPlcOperation with an      *)
(* empty rotationKeys list and submits the result; nothing in the client   *)
(* refuses an end state with no rotation key.                              *)
(***************************************************************************)
SoleKey == InRemove /\ Fetched /\ current.rotationKeys = <<key>>

C28_SoleKeyNotGuarded ==
    SoleKey
    => /\ "notfound" \notin stdout
       /\ pc = "remove:request" \/ Called("requestPlcOperationSignature")
       /\ Called("signPlcOperation") => signArgs.rotationKeys = <<>>
       /\ (pc = "exit" /\ failed = "none")
          => /\ Succeeded
             /\ Last(calls) = "submitPlcOperation"
             /\ SubmittedThisRun
             /\ State.rotationKeys = <<>>

C28_Witness ==
    /\ SoleKey
    /\ Succeeded
    /\ signArgs.rotationKeys = <<>>
    /\ State.rotationKeys = <<>>
    /\ Before.rotationKeys = <<key>>

====
